---- MODULE Spec2Model ----
(***************************************************************************)
(* Model of delete_lines.py: a script that reads App.tsx in text mode,     *)
(* drops the list slice [822, 1404) of its lines and writes the rest back. *)
(*                                                                         *)
(* A file is a sequence of code units (integers).  Reading in text mode    *)
(* decodes it and applies universal-newline translation; writing in text   *)
(* mode translates every "\n" to the platform's line separator.            *)
(***************************************************************************)
EXTENDS Integers, Sequences, FiniteSets, TLC

VARIABLES
    exists,     \* App.tsx is present in the working directory
    readable,   \* the process may open it for reading
    writable,   \* the process may open it for writing
    content,    \* the code units of App.tsx on disk
    linesep,    \* os.linesep of the platform, as code units
    start,      \* the literal 822 of lines[:822]
    end,        \* the literal 1404 of lines[1404:]
    pc,         \* pc[p]: the statement invocation p executes next
    lines,      \* lines[p]: the list bound to `lines`
    new_lines,  \* new_lines[p]: the list bound to `new_lines`
    rfd,        \* rfd[p]: p holds the file open for reading
    wfd,        \* wfd[p]: p holds the file open for writing
    stdout,     \* stdout[p]: the summaries p has printed
    runs,       \* number of invocations started so far
    orig        \* the content of App.tsx before the first invocation

vars == <<exists, readable, writable, content, linesep, start, end,
          pc, lines, new_lines, rfd, wfd, stdout, runs, orig>>

fsvars == <<exists, readable, writable, content>>

-----------------------------------------------------------------------------
(* Bounds of the model. *)

MaxLen == 2000
MaxRuns == 2
MaxGenLen == 4

(* Program constants. *)

START == 822
END == 1404

(* Code units. *)

LF == 10
CR == 13
BAD == 255

Procs == {1, 2}

Min(x, y) == IF x < y THEN x ELSE y

Last(s) == s[Len(s)]

-----------------------------------------------------------------------------
(* Text-mode reading: f.readlines() on a file opened with open(name, 'r'). *)

Decodable(c) == \A i \in 1..Len(c) : c[i] # BAD

(* Position i of the file ends a physical line: a "\n", a "\r" that no     *)
(* "\n" follows, or the last code unit of the file.                        *)
IsLineEnd(c, i) ==
    \/ c[i] = LF
    \/ c[i] = CR /\ (i = Len(c) \/ c[i + 1] # LF)
    \/ i = Len(c)

(* The positions that end a line, in increasing order. *)
LineEnds(c) == SelectSeq([i \in 1..Len(c) |-> i], LAMBDA i : IsLineEnd(c, i))

CutAt(c, e) ==
    [k \in 1..Len(e) |-> SubSeq(c, IF k = 1 THEN 1 ELSE e[k - 1] + 1, e[k])]

(* The one element of a singleton set (binds a value that is used often,   *)
(* so that it is computed once).                                           *)
The(S) == CHOOSE x \in S : TRUE

(* The physical lines of a file, each with the terminator it has on disk. *)
RawLines(c) == The({CutAt(c, e) : e \in {LineEnds(c)}})

(* Universal newlines: "\r\n" and "\r" at the end of a line are read as "\n". *)
TranslateLine(l) ==
    LET n == Len(l)
    IN  IF n >= 2 /\ l[n - 1] = CR /\ l[n] = LF
            THEN SubSeq(l, 1, n - 2) \o <<LF>>
        ELSE IF l[n] = CR
            THEN SubSeq(l, 1, n - 1) \o <<LF>>
        ELSE l

TranslateAll(raw) == [i \in 1..Len(raw) |-> TranslateLine(raw[i])]

ReadLines(c) == The({TranslateAll(raw) : raw \in {RawLines(c)}})

-----------------------------------------------------------------------------
(* Text-mode writing: f.writelines(new_lines) on open(name, 'w'). *)

EncodeLine(l, sep) ==
    IF l # <<>> /\ Last(l) = LF
        THEN SubSeq(l, 1, Len(l) - 1) \o sep
        ELSE l

(* The concatenation of the encoded lines. *)
WriteText(ls, sep) ==
    LET W[r \in Nat \X Nat] ==
            IF r[1] > r[2] THEN <<>>
            ELSE IF r[1] = r[2] THEN EncodeLine(ls[r[1]], sep)
            ELSE W[<<r[1], (r[1] + r[2]) \div 2>>]
                     \o W[<<(r[1] + r[2]) \div 2 + 1, r[2]>>]
    IN  W[<<1, Len(ls)>>]

(* A write at offset 0 of a file that holds `old`. *)
OverlayAt0(data, old) == data \o SubSeq(old, Len(data) + 1, Len(old))

Overlay(data, old) == The({OverlayAt0(d, old) : d \in {data}})

-----------------------------------------------------------------------------
(* List slicing with non-negative bounds: s[:k] and s[k:]. *)

(* Variants of the slice with the bounds read as 1-based line numbers. *)
SliceTo_OneBased(s, k) == SubSeq(s, 1, Min(k + 1, Len(s)))

SliceFrom_OneBased(s, k) == SubSeq(s, Min(k + 1, Len(s)) + 1, Len(s))

SliceTo(s, k) == SubSeq(s, 1, Min(k, Len(s)))

SliceFrom(s, k) == SubSeq(s, Min(k, Len(s)) + 1, Len(s))

(* Variants of the deletion: the suffix forgotten, the end bound inclusive. *)
NewLines_NoSuffix(ls, a, b) == SliceTo(ls, a)

NewLines_InclusiveEnd(ls, a, b) == SliceTo(ls, a) \o SliceFrom(ls, b + 1)

(* new_lines = lines[:822] + lines[1404:] *)
NewLines(ls, a, b) == SliceTo(ls, a) \o SliceFrom(ls, b)

Summary(a, b, nl) == [deleted |-> b - a, total |-> Len(nl)]

-----------------------------------------------------------------------------
(* The files the model starts from. *)

Styles == {"lf", "crlf", "cr", "mixed"}

Body(i) == 256 + i

Term(style, i) ==
    CASE style = "lf"   -> <<LF>>
      [] style = "crlf" -> <<CR, LF>>
      [] style = "cr"   -> <<CR>>
      [] OTHER -> IF i % 3 = 0 THEN <<LF>> ELSE IF i % 3 = 1 THEN <<CR, LF>> ELSE <<CR>>

(* Line i (0-based) of an n-line file; `term` says whether the last line   *)
(* is terminated, `bad` puts an undecodable byte in the middle line.       *)
FileLine(i, n, style, term, bad) ==
    <<IF bad /\ i = n \div 2 THEN BAD ELSE Body(i)>>
        \o (IF i = n - 1 /\ ~term THEN <<>> ELSE Term(style, i))

RECURSIVE MkFileIn(_, _, _, _, _, _)
MkFileIn(lo, hi, n, style, term, bad) ==
    IF lo > hi THEN <<>>
    ELSE IF lo = hi THEN FileLine(lo, n, style, term, bad)
    ELSE LET mid == (lo + hi) \div 2
         IN  MkFileIn(lo, mid, n, style, term, bad)
                 \o MkFileIn(mid + 1, hi, n, style, term, bad)

MkFile(n, style, term, bad) == MkFileIn(0, n - 1, n, style, term, bad)

Lens == {0, 1, START - 1, START, START + 1, END - 1, END, END + 1, 1500,
         2 * END - START - 1, 2 * END - START, MaxLen}

Idle == [p \in Procs |-> "idle"]

InitProcs ==
    /\ pc = Idle
    /\ lines = [p \in Procs |-> <<>>]
    /\ new_lines = [p \in Procs |-> <<>>]
    /\ rfd = [p \in Procs |-> FALSE]
    /\ wfd = [p \in Procs |-> FALSE]
    /\ stdout = [p \in Procs |-> <<>>]
    /\ runs = 0

Platforms == {<<LF>>, <<CR, LF>>}

(* Files the script can be run on: any length and terminator style when    *)
(* the file is accessible; inaccessible or undecodable ones too.           *)
Init ==
    /\ InitProcs
    /\ start = START
    /\ end = END
    /\ linesep \in Platforms
    /\ \E n \in Lens, style \in Styles, term \in BOOLEAN :
         \/ /\ content = MkFile(n, style, term, FALSE)
            /\ exists = TRUE /\ readable = TRUE /\ writable = TRUE
         \/ /\ n \in {1, 1500}
            /\ style = "lf"
            /\ term
            /\ \E bad \in BOOLEAN, acc \in {<<FALSE, FALSE, FALSE>>, <<TRUE, FALSE, TRUE>>,
                                           <<TRUE, TRUE, FALSE>>, <<TRUE, FALSE, FALSE>>,
                                           <<TRUE, TRUE, TRUE>>} :
                 /\ content = IF acc[1] THEN MkFile(n, style, term, bad) ELSE <<>>
                 /\ exists = acc[1] /\ readable = acc[2] /\ writable = acc[3]
    /\ orig = content

-----------------------------------------------------------------------------
(* The statements of the script, for invocation p. *)

Invoke(p) ==
    /\ pc[p] \in {"idle", "done", "failed"}
    /\ runs < MaxRuns
    /\ runs' = runs + 1
    /\ pc' = [pc EXCEPT ![p] = "open_r"]
    /\ lines' = [lines EXCEPT ![p] = <<>>]
    /\ new_lines' = [new_lines EXCEPT ![p] = <<>>]
    /\ stdout' = [stdout EXCEPT ![p] = <<>>]
    /\ UNCHANGED <<fsvars, linesep, start, end, rfd, wfd, orig>>

(* Variant: the file opened with mode 'w+', which creates or truncates it. *)
OpenRead_Creates(p) ==
    /\ pc[p] = "open_r"
    /\ IF exists /\ ~(readable /\ writable)
          THEN /\ pc' = [pc EXCEPT ![p] = "failed"]
               /\ UNCHANGED <<fsvars, rfd>>
          ELSE /\ content' = <<>>
               /\ exists' = TRUE
               /\ readable' = TRUE
               /\ writable' = TRUE
               /\ rfd' = [rfd EXCEPT ![p] = TRUE]
               /\ pc' = [pc EXCEPT ![p] = "read"]
    /\ UNCHANGED <<linesep, start, end, lines, new_lines, wfd, stdout, runs, orig>>

(* with open('App.tsx', 'r') as f: *)
OpenRead(p) ==
    /\ pc[p] = "open_r"
    /\ IF exists /\ readable
          THEN /\ rfd' = [rfd EXCEPT ![p] = TRUE]
               /\ pc' = [pc EXCEPT ![p] = "read"]
          ELSE /\ pc' = [pc EXCEPT ![p] = "failed"]
               /\ UNCHANGED rfd
    /\ UNCHANGED <<fsvars, linesep, start, end, lines, new_lines, wfd, stdout, runs, orig>>

(* lines = f.readlines(); a decoding error leaves the with block, which    *)
(* closes the file, and ends the run.                                      *)
ReadAll(p) ==
    /\ pc[p] = "read"
    /\ IF Decodable(content)
          THEN /\ lines' = [lines EXCEPT ![p] = ReadLines(content)]
               /\ pc' = [pc EXCEPT ![p] = "close_r"]
               /\ UNCHANGED rfd
          ELSE /\ rfd' = [rfd EXCEPT ![p] = FALSE]
               /\ pc' = [pc EXCEPT ![p] = "failed"]
               /\ UNCHANGED lines
    /\ UNCHANGED <<fsvars, linesep, start, end, new_lines, wfd, stdout, runs, orig>>

(* Variant: the file read without a with block and never closed. *)
CloseRead_Leak(p) ==
    /\ pc[p] = "close_r"
    /\ pc' = [pc EXCEPT ![p] = "slice"]
    /\ UNCHANGED <<fsvars, linesep, start, end, lines, new_lines, rfd, wfd, stdout, runs, orig>>

(* the end of the first with block *)
CloseRead(p) ==
    /\ pc[p] = "close_r"
    /\ rfd' = [rfd EXCEPT ![p] = FALSE]
    /\ pc' = [pc EXCEPT ![p] = "slice"]
    /\ UNCHANGED <<fsvars, linesep, start, end, lines, new_lines, wfd, stdout, runs, orig>>

(* new_lines = lines[:822] + lines[1404:] *)
Slice(p) ==
    /\ pc[p] = "slice"
    /\ new_lines' = [new_lines EXCEPT ![p] = NewLines(lines[p], start, end)]
    /\ pc' = [pc EXCEPT ![p] = "open_w"]
    /\ UNCHANGED <<fsvars, linesep, start, end, lines, rfd, wfd, stdout, runs, orig>>

(* Variant: the file opened with mode 'r+', which does not truncate it. *)
OpenWrite_NoTruncate(p) ==
    /\ pc[p] = "open_w"
    /\ IF ~exists \/ ~writable
          THEN /\ pc' = [pc EXCEPT ![p] = "failed"]
               /\ UNCHANGED wfd
          ELSE /\ wfd' = [wfd EXCEPT ![p] = TRUE]
               /\ pc' = [pc EXCEPT ![p] = "write"]
    /\ UNCHANGED <<fsvars, linesep, start, end, lines, new_lines, rfd, stdout, runs, orig>>

(* with open('App.tsx', 'w') as f: creates or truncates the file *)
OpenWrite(p) ==
    /\ pc[p] = "open_w"
    /\ IF exists /\ ~writable
          THEN /\ pc' = [pc EXCEPT ![p] = "failed"]
               /\ UNCHANGED <<fsvars, wfd>>
          ELSE /\ content' = <<>>
               /\ exists' = TRUE
               /\ readable' = (IF exists THEN readable ELSE TRUE)
               /\ writable' = TRUE
               /\ wfd' = [wfd EXCEPT ![p] = TRUE]
               /\ pc' = [pc EXCEPT ![p] = "write"]
    /\ UNCHANGED <<linesep, start, end, lines, new_lines, rfd, stdout, runs, orig>>

(* f.writelines(new_lines) *)
WriteAll(p) ==
    /\ pc[p] = "write"
    /\ content' = Overlay(WriteText(new_lines[p], linesep), content)
    /\ pc' = [pc EXCEPT ![p] = "close_w"]
    /\ UNCHANGED <<exists, readable, writable, linesep, start, end, lines, new_lines,
                   rfd, wfd, stdout, runs, orig>>

(* the end of the second with block *)
CloseWrite(p) ==
    /\ pc[p] = "close_w"
    /\ wfd' = [wfd EXCEPT ![p] = FALSE]
    /\ pc' = [pc EXCEPT ![p] = "print"]
    /\ UNCHANGED <<fsvars, linesep, start, end, lines, new_lines, rfd, stdout, runs, orig>>

(* print(f"Deleted {1404 - 822} lines. New file has {len(new_lines)} lines.") *)
PrintSummary(p) ==
    /\ pc[p] = "print"
    /\ stdout' = [stdout EXCEPT ![p] = Append(@, Summary(start, end, new_lines[p]))]
    /\ pc' = [pc EXCEPT ![p] = "done"]
    /\ UNCHANGED <<fsvars, linesep, start, end, lines, new_lines, rfd, wfd, runs, orig>>

Step(p) ==
    \/ OpenRead(p)
    \/ ReadAll(p)
    \/ CloseRead(p)
    \/ Slice(p)
    \/ OpenWrite(p)
    \/ WriteAll(p)
    \/ CloseWrite(p)
    \/ PrintSummary(p)

(* One invocation at a time: the script is run, and may be run again once  *)
(* it has ended.                                                           *)
Next == Invoke(1) \/ Step(1)

Spec == Init /\ [][Next]_vars

(* The same runs, with the interpreter never stalling inside a run: every  *)
(* statement of the script runs to completion and the next one follows.    *)
FairSpec == Spec /\ WF_vars(Step(1))

(* The script on the shortest files only: empty or of a single line.       *)
InitShort == Init /\ Len(content) <= 3

SpecShort == InitShort /\ [][Next]_vars

-----------------------------------------------------------------------------
(* The range deletion on its own: the statements of the script with the    *)
(* two bounds of the slice drawn from a set, on short files of every       *)
(* terminator style and on the script's own bounds with long files.        *)

GenBounds == 0..(MaxGenLen + 1)

InitGen ==
    /\ InitProcs
    /\ linesep \in Platforms
    /\ exists = TRUE /\ readable = TRUE /\ writable = TRUE
    /\ \/ /\ start \in GenBounds
          /\ end \in GenBounds
          /\ \E n \in 0..MaxGenLen, style \in Styles, term \in BOOLEAN :
                content = MkFile(n, style, term, FALSE)
       \/ /\ start = START
          /\ end = END
          /\ \E n \in {END, END + 1, 1500, MaxLen}, style \in {"lf", "crlf"} :
                content = MkFile(n, style, TRUE, FALSE)
    /\ orig = content

SpecGen == InitGen /\ [][Next]_vars

-----------------------------------------------------------------------------
(* Two invocations of the script started on the same file, their           *)
(* statements interleaved in any order.                                    *)

InitConc ==
    /\ InitProcs
    /\ start = START
    /\ end = END
    /\ linesep \in Platforms
    /\ exists = TRUE /\ readable = TRUE /\ writable = TRUE
    /\ \E n \in {1, END + 1, 1500}, style \in {"lf", "crlf"} :
          content = MkFile(n, style, TRUE, FALSE)
    /\ orig = content

Launch(p) == pc[p] = "idle" /\ Invoke(p)

NextConc == \E p \in Procs : Launch(p) \/ Step(p)

SpecConc == InitConc /\ [][NextConc]_vars

-----------------------------------------------------------------------------
(* Vocabulary of the properties. *)

(* The lines of the file as it was before the first run and as it is now,  *)
(* as text (what reading the file yields).                                 *)
OrigLines == ReadLines(orig)

OutLines == ReadLines(content)

(* The physical lines of the original file, terminators as on disk.        *)
OrigRaw == RawLines(orig)

Flatten(ls) ==
    LET F[r \in Nat \X Nat] ==
            IF r[1] > r[2] THEN <<>>
            ELSE IF r[1] = r[2] THEN ls[r[1]]
            ELSE F[<<r[1], (r[1] + r[2]) \div 2>>]
                     \o F[<<(r[1] + r[2]) \div 2 + 1, r[2]>>]
    IN  F[<<1, Len(ls)>>]

Accessible == exists /\ readable /\ writable

FirstRunDone == runs = 1 /\ pc[1] = "done"

SecondRunDone == runs = 2 /\ pc[1] = "done"

Ended(p) == pc[p] \in {"done", "failed"}

(* C1: for a file of N lines, removing [a, b) with 0 <= a <= b <= N leaves *)
(* a file of exactly N - (b - a) lines; with the script's bounds a file of *)
(* N >= 1404 lines has N - 582 lines after one run.                        *)
C1_LineCount ==
    (FirstRunDone /\ 0 <= start /\ start <= end /\ end <= Len(OrigLines))
        => /\ Len(OutLines) = Len(OrigLines) - (end - start)
           /\ (start = 822 /\ end = 1404 => Len(OutLines) = Len(OrigLines) - 582)

C1_Witness ==
    /\ FirstRunDone
    /\ start = 822 /\ end = 1404
    /\ Len(OrigLines) = 1500
    /\ Len(OutLines) = 918

(* C2 (as claimed): after one run the file on disk is exactly the original *)
(* lines below index 822 followed by those from index 1404 on, each with   *)
(* unchanged content.                                                      *)
C2_Verbatim ==
    FirstRunDone
        => content = Flatten(SubSeq(OrigRaw, 1, Min(822, Len(OrigRaw))))
                        \o Flatten(SubSeq(OrigRaw, 1405, Len(OrigRaw)))

(* C3: a file of fewer than 1404 lines raises no error: the output is the  *)
(* first min(N, 822) lines of the input, the file is overwritten and the   *)
(* summary is printed.                                                     *)
C3_ShortFile ==
    (runs = 1 /\ Ended(1) /\ Accessible /\ Decodable(orig) /\ Len(OrigLines) < 1404)
        => /\ pc[1] = "done"
           /\ OutLines = SubSeq(OrigLines, 1, Min(Len(OrigLines), 822))
           /\ content = WriteText(new_lines[1], linesep)
           /\ Len(stdout[1]) = 1

C3_Witness ==
    /\ FirstRunDone
    /\ Len(OrigLines) = 1403
    /\ Len(OutLines) = 822
    /\ content # orig
    /\ Len(stdout[1]) = 1

(* C4 (as claimed): the summary reports the number of lines removed, N     *)
(* minus the lines of the written file, and the lines of the written file. *)
C4_Summary ==
    FirstRunDone
        => /\ Len(stdout[1]) = 1
           /\ stdout[1][1].deleted = Len(OrigLines) - Len(OutLines)
           /\ stdout[1][1].total = Len(OutLines)

(* C5 (as claimed): a file that cannot be opened for reading ends the run  *)
(* in failure before any write, with the file system unchanged and no      *)
(* summary; a file that is readable and writable never ends the run in     *)
(* failure.                                                                *)
C5_OnlyAccessFails ==
    /\ (runs = 1 /\ ~(exists /\ readable))
          => /\ pc[1] \in {"open_r", "failed"}
             /\ content = orig
             /\ ~wfd[1]
             /\ stdout[1] = <<>>
    /\ (runs >= 1 /\ Accessible) => pc[1] # "failed"

(* The open for reading of a missing or unreadable file: the run fails in  *)
(* that step, which leaves the file system as it is and prints nothing.    *)
OpenFailsCleanly ==
    (pc[1] = "open_r" /\ ~(exists /\ readable) /\ pc'[1] # pc[1])
        => /\ pc'[1] = "failed"
           /\ UNCHANGED fsvars
           /\ stdout'[1] = <<>>

(* C5 (amended): a file that cannot be opened for reading ends the run in  *)
(* failure before any write, with the file system unchanged and no         *)
(* summary; a file that is readable, writable and decodable never ends the *)
(* run in failure, whatever its length; a readable, writable file that is  *)
(* not decodable fails in the read, before any write, likewise.            *)
C5_AccessOrDecodeFails ==
    /\ [][OpenFailsCleanly]_vars
    /\ []((runs = 1 /\ ~(exists /\ readable))
            => /\ pc[1] \in {"open_r", "failed"}
               /\ content = orig
               /\ ~wfd[1]
               /\ stdout[1] = <<>>)
    /\ []((runs >= 1 /\ Accessible /\ Decodable(orig)) => pc[1] # "failed")
    /\ []((runs >= 1 /\ Accessible /\ ~Decodable(orig))
            => /\ pc[1] \in {"open_r", "read", "failed"}
               /\ content = orig
               /\ ~wfd[1]
               /\ stdout[1] = <<>>)

C5_Witness ==
    /\ runs = 1
    /\ pc[1] = "failed"
    /\ ~exists
    /\ content = orig
    /\ stdout[1] = <<>>

(* C6: a second run on the output of the first changes the file again: it  *)
(* removes the original lines 1404..1985 that the first run kept.          *)
C6_NotIdempotent ==
    (SecondRunDone /\ Len(OrigLines) > 1404)
        => /\ OutLines = SubSeq(OrigLines, 1, 822)
                            \o SubSeq(OrigLines, 1987, Len(OrigLines))
           /\ OutLines # SubSeq(OrigLines, 1, 822)
                            \o SubSeq(OrigLines, 1405, Len(OrigLines))
           /\ content # WriteText(lines[1], linesep)

C6_Witness ==
    /\ SecondRunDone
    /\ Len(OrigLines) > 1986
    /\ Len(OutLines) = Len(OrigLines) - 2 * 582
    /\ OutLines[823] = OrigLines[1987]

(* C7 (as claimed): a 1500-line file has 918 lines after the run, and      *)
(* output line 822 is input line 1405, both counted from 1 or both from 0. *)
C7_Line822Is1405 ==
    (FirstRunDone /\ Len(OrigLines) = 1500)
        => /\ Len(OutLines) = 918
           /\ \/ OutLines[822] = OrigLines[1405]
              \/ OutLines[822 + 1] = OrigLines[1405 + 1]

(* C7 (amended): a 1500-line file has 918 lines after the run, and output  *)
(* line 823 is input line 1405, both counted from 1 (index 822 and index   *)
(* 1404 counted from 0).                                                   *)
C7_Line823Is1405 ==
    (FirstRunDone /\ Len(OrigLines) = 1500)
        => /\ Len(OutLines) = 918
           /\ OutLines[823] = OrigLines[1405]
           /\ OutLines[822] = OrigLines[822]

C7_Witness ==
    /\ FirstRunDone
    /\ Len(OrigLines) = 1500
    /\ Len(OutLines) = 918
    /\ OutLines[823] = <<Body(1404), LF>>

(* C8: with an empty range (a = b, 0 <= a <= N) the sequence of lines      *)
(* written equals the sequence read, line for line.                        *)
C8_EmptyRange ==
    (pc[1] \in {"open_w", "write", "close_w", "print", "done"} /\ runs = 1
        /\ start = end /\ 0 <= start /\ start <= Len(lines[1]))
        => /\ new_lines[1] = lines[1]
           /\ (pc[1] = "done" => OutLines = OrigLines)

C8_Witness ==
    /\ FirstRunDone
    /\ start = end
    /\ start = 2
    /\ Len(lines[1]) = 4
    /\ new_lines[1] = lines[1]

(* The order of the statements of one invocation. *)
Order ==
    {<<"idle", "open_r">>, <<"done", "open_r">>, <<"failed", "open_r">>,
     <<"open_r", "read">>, <<"open_r", "failed">>,
     <<"read", "close_r">>, <<"read", "failed">>,
     <<"close_r", "slice">>, <<"slice", "open_w">>,
     <<"open_w", "write">>, <<"open_w", "failed">>,
     <<"write", "close_w">>, <<"close_w", "print">>, <<"print", "done">>}

LinearStep ==
    /\ pc'[1] # pc[1] => <<pc[1], pc'[1]>> \in Order
    /\ (rfd'[1] /\ ~rfd[1]) => pc[1] = "open_r"
    /\ (wfd'[1] /\ ~wfd[1]) => (pc[1] = "open_w" /\ ~rfd[1])
    /\ content' # content => (pc[1] \in {"open_w", "write"} /\ wfd'[1] /\ ~rfd[1])
    /\ (pc[1] = "write" /\ pc'[1] # pc[1]) => content' = WriteText(new_lines[1], linesep)
    /\ (stdout'[1] # stdout[1] /\ stdout'[1] # <<>>)
          => (pc[1] = "print" /\ ~wfd[1] /\ Len(stdout'[1]) = 1)

HandlesInOrder ==
    /\ ~(rfd[1] /\ wfd[1])
    /\ rfd[1] <=> pc[1] \in {"read", "close_r"}
    /\ wfd[1] <=> pc[1] \in {"write", "close_w"}

(* C9: one invocation is a linear sequence that always terminates: the     *)
(* file is opened for reading, read and closed before it is reopened for   *)
(* writing, written once and closed; the summary comes after the write;    *)
(* the file is never open for reading and for writing at once.             *)
C9_LinearRun ==
    /\ [][LinearStep]_vars
    /\ []HandlesInOrder
    /\ (pc[1] = "open_r") ~> Ended(1)

C9_Witness ==
    /\ FirstRunDone
    /\ Len(stdout[1]) = 1
    /\ content # orig
    /\ ~rfd[1] /\ ~wfd[1]

(* The file after one run and after two runs in sequence. *)
RunOnce(c) == WriteText(NewLines(ReadLines(c), START, END), linesep)

Serial1 == RunOnce(orig)

Serial2 == RunOnce(RunOnce(orig))

BothDone == pc[1] = "done" /\ pc[2] = "done"

(* C10: two invocations on the same file are not serializable: when one    *)
(* reads after the other has truncated the file and before it has written, *)
(* the final content can be that of neither one run nor two runs in        *)
(* sequence; every such outcome is the empty file, all lines lost.         *)
C10_TruncateWindow ==
    (BothDone /\ content \notin {Serial1, Serial2})
        => /\ content = <<>>
           /\ orig # <<>>
           /\ \E p \in Procs : lines[p] = <<>> /\ new_lines[p] = <<>>

C10_Witness ==
    /\ BothDone
    /\ Len(OrigLines) = 1500
    /\ content \notin {Serial1, Serial2}
    /\ content = <<>>
    /\ \E p \in Procs : lines[p] = <<>> /\ Len(lines[3 - p]) = 1500

====
